---- MODULE Spec2Model ----
(***************************************************************************)
(* jute: a terminal editor for a flat key/value mapping.                   *)
(* The model follows src/src/main.rs: main() (terminal setup, run_app,     *)
(* teardown, report) and run_app() (draw, blocking event read, dispatch on *)
(* the current screen).  The App type (app.rs) is modelled from its        *)
(* description: init, save_key_value, toggle_editing, print_json.          *)
(***************************************************************************)
EXTENDS Integers, Sequences, FiniteSets, TLC

VARIABLES
    pc,                 \* position of main()/run_app()
    raw_mode,           \* terminal raw mode is enabled
    alt_screen,         \* the alternate screen is entered
    mouse_capture,      \* mouse capture is enabled
    cursor_hidden,      \* the cursor is hidden (ratatui hides it when drawing)
    current_screen,     \* app.current_screen: "Main" | "Editing" | "Exiting"
    currently_editing,  \* app.currently_editing: "None" | "Key" | "Value"
    key_input,          \* app.key_input, a sequence of characters
    value_input,        \* app.value_input, a sequence of characters
    pairs,              \* app.pairs, a sequence of <<key, value>> entries
    key,                \* the event last returned by event::read()
    res,                \* run_app's result in main: "none" | "ok_true" | "ok_false" | "err"
    main_result,        \* main's result: "none" | "ok" | "err"
    stdout,             \* what was written to standard output, in order
    stderr,             \* the kinds of output written to standard error
    nread,              \* number of events read so far
    script,             \* the events the event source will deliver (scripted runs)
    pairs_at_q          \* history: app.pairs when 'q' was pressed on the Main screen

vars == <<pc, raw_mode, alt_screen, mouse_capture, cursor_hidden, current_screen,
          currently_editing, key_input, value_input, pairs, key, res, main_result,
          stdout, stderr, nread, script, pairs_at_q>>

appvars == <<current_screen, currently_editing, key_input, value_input, pairs>>

termvars == <<raw_mode, alt_screen, mouse_capture, cursor_hidden, stderr>>

(***************************************************************************)
(* Bounds.                                                                 *)
(***************************************************************************)
\* events the event source delivers in a free run
MaxEvents == 6

\* segments a scripted run is made of
MaxSegments == 2

(***************************************************************************)
(* Events (crossterm::event::Event).                                       *)
(***************************************************************************)
Chars == {"e", "q", "y", "n"}

Kinds == {"Press", "Repeat", "Release"}

Ev(type, kind, code, ch) == [type |-> type, kind |-> kind, code |-> code, ch |-> ch]

NoEvent == Ev("None", "None", "None", "")

KeyEv(kind, code) == Ev("Key", kind, code, "")

CharEv(kind, c) == Ev("Key", kind, "Char", c)

Press(c) == CharEv("Press", c)

PressKey(code) == KeyEv("Press", code)

\* F1 stands for every key code the program has no arm for
SpecialCodes == {"Enter", "Backspace", "Esc", "Tab", "F1"}

KeyEvents ==
    {KeyEv(k, c) : k \in Kinds, c \in SpecialCodes}
        \cup {CharEv(k, c) : k \in Kinds, c \in Chars}

NonKeyEvents == {Ev("Mouse", "None", "None", ""), Ev("Resize", "None", "None", "")}

Events == KeyEvents \cup NonKeyEvents

IsChar(ev, c) == ev.code = "Char" /\ ev.ch = c

(***************************************************************************)
(* App (app.rs).                                                           *)
(***************************************************************************)
Keys(p) == {p[i][1] : i \in 1..Len(p)}

HasKey(p, k) == \E i \in 1..Len(p) : p[i][1] = k

Lookup(p, k) == p[CHOOSE i \in 1..Len(p) : p[i][1] = k][2]

\* mutant of Insert: always adds an entry
Insert_Appends(p, k, v) == Append(p, <<k, v>>)

\* pairs.insert(k, v): overwrite the entry of k, or add one
Insert(p, k, v) ==
    IF HasKey(p, k)
    THEN [i \in 1..Len(p) |-> IF p[i][1] = k THEN <<k, v>> ELSE p[i]]
    ELSE Append(p, <<k, v>>)

\* String::pop: drop the last character, if any
Pop(s) == IF s = <<>> THEN s ELSE SubSeq(s, 1, Len(s) - 1)

\* String::push
Push(s, c) == Append(s, c)

\* toggle_editing
ToggleEditing(f) ==
    CASE f = "Key" -> "Value"
      [] f = "Value" -> "Key"
      [] OTHER -> f

Quoted(s) == <<"\"">> \o s \o <<"\"">>

RECURSIVE Entries(_)
Entries(p) ==
    IF p = <<>> THEN <<>>
    ELSE Quoted(p[1][1]) \o <<":">> \o Quoted(p[1][2])
            \o (IF Len(p) > 1 THEN <<",">> ELSE <<>>) \o Entries(Tail(p))

\* the JSON text of the store, as a sequence of characters
Serialize(p) == <<"{">> \o Entries(p) \o <<"}">>

(***************************************************************************)
(* Initial state: main() is about to run, App::init() values.              *)
(***************************************************************************)
InitCommon ==
    /\ pc = "enable_raw"
    /\ raw_mode = FALSE
    /\ alt_screen = FALSE
    /\ mouse_capture = FALSE
    /\ cursor_hidden = FALSE
    /\ current_screen = "Main"
    /\ currently_editing = "None"
    /\ key_input = <<>>
    /\ value_input = <<>>
    /\ pairs = <<>>
    /\ key = NoEvent
    /\ res = "none"
    /\ main_result = "none"
    /\ stdout = <<>>
    /\ stderr = {}
    /\ nread = 0
    /\ pairs_at_q = <<>>

Init == InitCommon /\ script = <<>>

(***************************************************************************)
(* main(): setup.  A failing step returns its error at once (the ? operator). *)
(***************************************************************************)
EnableRawMode ==
    /\ pc = "enable_raw"
    /\ raw_mode' = TRUE
    /\ pc' = "enter_alt"
    /\ UNCHANGED <<alt_screen, mouse_capture, cursor_hidden, stderr, appvars, key, res,
                   main_result, stdout, nread, script, pairs_at_q>>

EnableRawModeFail ==
    /\ pc = "enable_raw"
    /\ main_result' = "err"
    /\ pc' = "done"
    /\ UNCHANGED <<termvars, appvars, key, res, stdout, nread, script, pairs_at_q>>

EnterAlternateScreen ==
    /\ pc = "enter_alt"
    /\ alt_screen' = TRUE
    /\ mouse_capture' = TRUE
    /\ stderr' = stderr \cup {"control"}
    /\ pc' = "new_terminal"
    /\ UNCHANGED <<raw_mode, cursor_hidden, appvars, key, res, main_result, stdout,
                   nread, script, pairs_at_q>>

\* the write may fail before or after the first command took effect
EnterAlternateScreenFail ==
    /\ pc = "enter_alt"
    /\ alt_screen' \in BOOLEAN
    /\ stderr' = IF alt_screen' # alt_screen THEN stderr \cup {"control"} ELSE stderr
    /\ main_result' = "err"
    /\ pc' = "done"
    /\ UNCHANGED <<raw_mode, mouse_capture, cursor_hidden, appvars, key, res, stdout,
                   nread, script, pairs_at_q>>

NewTerminal ==
    /\ pc = "new_terminal"
    /\ pc' = "draw"
    /\ UNCHANGED <<termvars, appvars, key, res, main_result, stdout, nread, script,
                   pairs_at_q>>

NewTerminalFail ==
    /\ pc = "new_terminal"
    /\ main_result' = "err"
    /\ pc' = "done"
    /\ UNCHANGED <<termvars, appvars, key, res, stdout, nread, script, pairs_at_q>>

(***************************************************************************)
(* run_app(): one iteration draws, reads one event and dispatches it.      *)
(***************************************************************************)
mainvars == <<res, main_result, stdout, script, pairs_at_q>>

\* terminal.draw(|f| ui(f, app))?
Draw ==
    /\ pc = "draw"
    /\ cursor_hidden' = TRUE
    /\ stderr' = stderr \cup {"frame"}
    /\ pc' = "read"
    /\ UNCHANGED <<raw_mode, alt_screen, mouse_capture, appvars, key, nread, mainvars>>

DrawFail ==
    /\ pc = "draw"
    /\ res' = "err"
    /\ pc' = "disable_raw"
    /\ UNCHANGED <<termvars, appvars, key, nread, main_result, stdout, script, pairs_at_q>>

\* event::read()? delivering any event
ReadAny ==
    /\ pc = "read"
    /\ nread < MaxEvents
    /\ \E ev \in Events : key' = ev
    /\ nread' = nread + 1
    /\ pc' = "handle"
    /\ UNCHANGED <<termvars, appvars, mainvars>>

\* event::read()? delivering the next event of the script
ReadScript ==
    /\ pc = "read"
    /\ nread < Len(script)
    /\ key' = script[nread + 1]
    /\ nread' = nread + 1
    /\ pc' = "handle"
    /\ UNCHANGED <<termvars, appvars, mainvars>>

ReadFail ==
    /\ pc = "read"
    /\ res' = "err"
    /\ pc' = "disable_raw"
    /\ UNCHANGED <<termvars, appvars, key, nread, main_result, stdout, script, pairs_at_q>>

\* the end of an iteration that goes on to the next one
Continue ==
    /\ pc' = "draw"
    /\ UNCHANGED key
    /\ UNCHANGED <<termvars, nread, mainvars>>

\* the end of an iteration that returns Ok(do_print)
Return(r) ==
    /\ pc' = "disable_raw"
    /\ res' = r
    /\ UNCHANGED key
    /\ UNCHANGED <<termvars, nread, main_result, stdout, script, pairs_at_q>>

\* not Event::Key: the if-let does not match
HandleNonKey ==
    /\ pc = "handle"
    /\ key.type # "Key"
    /\ Continue
    /\ UNCHANGED appvars

\* mutant of HandleRelease: the event is not skipped, 'q' on Main is acted on
HandleRelease_Dispatches ==
    /\ pc = "handle"
    /\ key.type = "Key"
    /\ key.kind = "Release"
    /\ current_screen' =
            IF current_screen = "Main" /\ IsChar(key, "q") THEN "Exiting" ELSE current_screen
    /\ pc' = "draw"
    /\ UNCHANGED <<termvars, nread, mainvars, key>>
    /\ UNCHANGED <<currently_editing, key_input, value_input, pairs>>

\* key.kind == Release: continue
HandleRelease ==
    /\ pc = "handle"
    /\ key.type = "Key"
    /\ key.kind = "Release"
    /\ Continue
    /\ UNCHANGED appvars

\* the match on app.current_screen is reached
Dispatched(screen) ==
    /\ pc = "handle"
    /\ key.type = "Key"
    /\ key.kind # "Release"
    /\ current_screen = screen

\* mutant of MainE: starting an edit empties the store
MainE_ResetsStore ==
    /\ pc = "handle"
    /\ key.type = "Key"
    /\ key.kind # "Release"
    /\ current_screen = "Main"
    /\ IsChar(key, "e")
    /\ current_screen' = "Editing"
    /\ currently_editing' = "Key"
    /\ pairs' = <<>>
    /\ pc' = "draw"
    /\ UNCHANGED <<termvars, nread, mainvars, key>>
    /\ UNCHANGED <<key_input, value_input>>

\* mutant of MainE: starting an edit empties both buffers
MainE_ClearsBuffers ==
    /\ pc = "handle"
    /\ key.type = "Key"
    /\ key.kind # "Release"
    /\ current_screen = "Main"
    /\ IsChar(key, "e")
    /\ current_screen' = "Editing"
    /\ currently_editing' = "Key"
    /\ key_input' = <<>>
    /\ value_input' = <<>>
    /\ pc' = "draw"
    /\ UNCHANGED <<termvars, nread, mainvars, key>>
    /\ UNCHANGED pairs

\* mutant of MainE: the focus starts on Value
MainE_FocusValue ==
    /\ pc = "handle"
    /\ key.type = "Key"
    /\ key.kind # "Release"
    /\ current_screen = "Main"
    /\ IsChar(key, "e")
    /\ current_screen' = "Editing"
    /\ currently_editing' = "Value"
    /\ pc' = "draw"
    /\ UNCHANGED <<termvars, nread, mainvars, key>>
    /\ UNCHANGED <<key_input, value_input, pairs>>

MainE ==
    /\ Dispatched("Main")
    /\ IsChar(key, "e")
    /\ current_screen' = "Editing"
    /\ currently_editing' = "Key"
    /\ Continue
    /\ UNCHANGED <<key_input, value_input, pairs>>

\* mutant of MainQ: 'q' on Main leaves the loop without asking
MainQ_ReturnsAtOnce ==
    /\ pc = "handle"
    /\ key.type = "Key"
    /\ key.kind # "Release"
    /\ current_screen = "Main"
    /\ IsChar(key, "q")
    /\ pc' = "disable_raw"
    /\ res' = "ok_false"
    /\ pairs_at_q' = pairs
    /\ UNCHANGED <<termvars, nread, main_result, stdout, script, key>>
    /\ UNCHANGED appvars

MainQ ==
    /\ Dispatched("Main")
    /\ IsChar(key, "q")
    /\ current_screen' = "Exiting"
    /\ pc' = "draw"
    /\ UNCHANGED key
    /\ pairs_at_q' = pairs
    /\ UNCHANGED <<termvars, nread, res, main_result, stdout, script>>
    /\ UNCHANGED <<currently_editing, key_input, value_input, pairs>>

MainOther ==
    /\ Dispatched("Main")
    /\ ~IsChar(key, "e")
    /\ ~IsChar(key, "q")
    /\ Continue
    /\ UNCHANGED appvars

\* mutant of ExitingY: returns Ok(false)
ExitingY_ReturnsFalse ==
    /\ pc = "handle"
    /\ key.type = "Key"
    /\ key.kind # "Release"
    /\ current_screen = "Exiting"
    /\ IsChar(key, "y")
    /\ pc' = "disable_raw"
    /\ res' = "ok_false"
    /\ UNCHANGED <<termvars, nread, main_result, stdout, script, pairs_at_q, key>>
    /\ UNCHANGED appvars

ExitingY ==
    /\ Dispatched("Exiting")
    /\ IsChar(key, "y")
    /\ Return("ok_true")
    /\ UNCHANGED appvars

\* mutant of ExitingNQ: returns Ok(true)
ExitingNQ_ReturnsTrue ==
    /\ pc = "handle"
    /\ key.type = "Key"
    /\ key.kind # "Release"
    /\ current_screen = "Exiting"
    /\ (IsChar(key, "n") \/ IsChar(key, "q"))
    /\ pc' = "disable_raw"
    /\ res' = "ok_true"
    /\ UNCHANGED <<termvars, nread, main_result, stdout, script, pairs_at_q, key>>
    /\ UNCHANGED appvars

ExitingNQ ==
    /\ Dispatched("Exiting")
    /\ (IsChar(key, "n") \/ IsChar(key, "q"))
    /\ Return("ok_false")
    /\ UNCHANGED appvars

\* mutant of ExitingOther: Esc on Exiting goes back to Main
ExitingOther_EscGoesBack ==
    /\ Dispatched("Exiting")
    /\ ~IsChar(key, "y")
    /\ ~IsChar(key, "n")
    /\ ~IsChar(key, "q")
    /\ current_screen' = IF key.code = "Esc" THEN "Main" ELSE current_screen
    /\ Continue
    /\ UNCHANGED <<currently_editing, key_input, value_input, pairs>>

ExitingOther ==
    /\ Dispatched("Exiting")
    /\ ~IsChar(key, "y")
    /\ ~IsChar(key, "n")
    /\ ~IsChar(key, "q")
    /\ Continue
    /\ UNCHANGED appvars

\* the Editing arm's guard: key.kind == Press
EditingPress(code) ==
    /\ Dispatched("Editing")
    /\ key.kind = "Press"
    /\ key.code = code

\* app.save_key_value()
SaveKeyValue ==
    /\ pairs' = Insert(pairs, key_input, value_input)
    /\ key_input' = <<>>
    /\ value_input' = <<>>
    /\ currently_editing' = "None"

\* mutant of EditingEnter: an empty key is not committed
EditingEnter_RejectsEmptyKey ==
    /\ EditingPress("Enter")
    /\ CASE currently_editing = "Key" ->
                /\ currently_editing' = "Value"
                /\ UNCHANGED <<current_screen, key_input, value_input, pairs>>
         [] currently_editing = "Value" /\ key_input # <<>> ->
                /\ SaveKeyValue
                /\ current_screen' = "Main"
         [] OTHER -> UNCHANGED appvars
    /\ Continue

\* mutant of EditingEnter: the commit does not return to the Main screen
EditingEnter_StaysOnEditing ==
    /\ EditingPress("Enter")
    /\ CASE currently_editing = "Key" ->
                /\ currently_editing' = "Value"
                /\ UNCHANGED <<current_screen, key_input, value_input, pairs>>
         [] currently_editing = "Value" ->
                /\ SaveKeyValue
                /\ UNCHANGED current_screen
         [] OTHER -> UNCHANGED appvars
    /\ Continue

EditingEnter ==
    /\ EditingPress("Enter")
    /\ CASE currently_editing = "Key" ->
                /\ currently_editing' = "Value"
                /\ UNCHANGED <<current_screen, key_input, value_input, pairs>>
         [] currently_editing = "Value" ->
                /\ SaveKeyValue
                /\ current_screen' = "Main"
         [] OTHER -> UNCHANGED appvars
    /\ Continue

EditingBackspace ==
    /\ EditingPress("Backspace")
    /\ CASE currently_editing = "Key" ->
                /\ key_input' = Pop(key_input)
                /\ UNCHANGED value_input
         [] currently_editing = "Value" ->
                /\ value_input' = Pop(value_input)
                /\ UNCHANGED key_input
         [] OTHER -> UNCHANGED <<key_input, value_input>>
    /\ Continue
    /\ UNCHANGED <<current_screen, currently_editing, pairs>>

\* mutant of EditingEsc: the buffers are cleared as well
EditingEsc_ClearsBuffers ==
    /\ EditingPress("Esc")
    /\ current_screen' = "Main"
    /\ currently_editing' = "None"
    /\ key_input' = <<>>
    /\ value_input' = <<>>
    /\ Continue
    /\ UNCHANGED pairs

\* mutant of EditingEsc: the focus is not cleared
EditingEsc_KeepsFocus ==
    /\ EditingPress("Esc")
    /\ current_screen' = "Main"
    /\ Continue
    /\ UNCHANGED <<currently_editing, key_input, value_input, pairs>>

EditingEsc ==
    /\ EditingPress("Esc")
    /\ current_screen' = "Main"
    /\ currently_editing' = "None"
    /\ Continue
    /\ UNCHANGED <<key_input, value_input, pairs>>

\* mutant of EditingTab: Tab moves the focus to Value and never back
EditingTab_AlwaysValue ==
    /\ EditingPress("Tab")
    /\ currently_editing' = "Value"
    /\ Continue
    /\ UNCHANGED <<current_screen, key_input, value_input, pairs>>

EditingTab ==
    /\ EditingPress("Tab")
    /\ currently_editing' = ToggleEditing(currently_editing)
    /\ Continue
    /\ UNCHANGED <<current_screen, key_input, value_input, pairs>>

\* mutant of EditingChar: the character goes to the key buffer whatever the focus
EditingChar_AlwaysKey ==
    /\ EditingPress("Char")
    /\ key_input' = Push(key_input, key.ch)
    /\ Continue
    /\ UNCHANGED <<current_screen, currently_editing, value_input, pairs>>

\* mutant of EditingChar: the character is put in front
EditingChar_Prepends ==
    /\ EditingPress("Char")
    /\ CASE currently_editing = "Key" ->
                /\ key_input' = <<key.ch>> \o key_input
                /\ UNCHANGED value_input
         [] currently_editing = "Value" ->
                /\ value_input' = <<key.ch>> \o value_input
                /\ UNCHANGED key_input
         [] OTHER -> UNCHANGED <<key_input, value_input>>
    /\ Continue
    /\ UNCHANGED <<current_screen, currently_editing, pairs>>

EditingChar ==
    /\ EditingPress("Char")
    /\ CASE currently_editing = "Key" ->
                /\ key_input' = Push(key_input, key.ch)
                /\ UNCHANGED value_input
         [] currently_editing = "Value" ->
                /\ value_input' = Push(value_input, key.ch)
                /\ UNCHANGED key_input
         [] OTHER -> UNCHANGED <<key_input, value_input>>
    /\ Continue
    /\ UNCHANGED <<current_screen, currently_editing, pairs>>

\* mutant of EditingOther: an unknown key leaves the Editing screen
EditingOther_LeavesEditing ==
    /\ Dispatched("Editing")
    /\ key.kind = "Press"
    /\ key.code \notin {"Enter", "Backspace", "Esc", "Tab", "Char"}
    /\ current_screen' = "Main"
    /\ currently_editing' = "None"
    /\ Continue
    /\ UNCHANGED <<key_input, value_input, pairs>>

\* the Editing arm's catch-all
EditingOther ==
    /\ Dispatched("Editing")
    /\ key.kind = "Press"
    /\ key.code \notin {"Enter", "Backspace", "Esc", "Tab", "Char"}
    /\ Continue
    /\ UNCHANGED appvars

\* the outer catch-all: Editing, and the key's kind is not Press
EditingNotPress ==
    /\ Dispatched("Editing")
    /\ key.kind # "Press"
    /\ Continue
    /\ UNCHANGED appvars

(***************************************************************************)
(* main(): teardown and report.                                            *)
(***************************************************************************)
DisableRawMode ==
    /\ pc = "disable_raw"
    /\ raw_mode' = FALSE
    /\ pc' = "leave_alt"
    /\ UNCHANGED <<alt_screen, mouse_capture, cursor_hidden, stderr, appvars, key, nread,
                   mainvars>>

DisableRawModeFail ==
    /\ pc = "disable_raw"
    /\ main_result' = "err"
    /\ pc' = "done"
    /\ UNCHANGED <<termvars, appvars, key, nread, res, stdout, script, pairs_at_q>>

LeaveAlternateScreen ==
    /\ pc = "leave_alt"
    /\ alt_screen' = FALSE
    /\ mouse_capture' = FALSE
    /\ stderr' = stderr \cup {"control"}
    /\ pc' = "show_cursor"
    /\ UNCHANGED <<raw_mode, cursor_hidden, appvars, key, nread, mainvars>>

\* the write may fail before or after the first command took effect
LeaveAlternateScreenFail ==
    /\ pc = "leave_alt"
    /\ alt_screen' \in BOOLEAN
    /\ stderr' = IF alt_screen' # alt_screen THEN stderr \cup {"control"} ELSE stderr
    /\ main_result' = "err"
    /\ pc' = "done"
    /\ UNCHANGED <<raw_mode, mouse_capture, cursor_hidden, appvars, key, nread, res,
                   stdout, script, pairs_at_q>>

ShowCursor ==
    /\ pc = "show_cursor"
    /\ cursor_hidden' = FALSE
    /\ stderr' = stderr \cup {"control"}
    /\ pc' = "report"
    /\ UNCHANGED <<raw_mode, alt_screen, mouse_capture, appvars, key, nread, mainvars>>

ShowCursorFail ==
    /\ pc = "show_cursor"
    /\ main_result' = "err"
    /\ pc' = "done"
    /\ UNCHANGED <<termvars, appvars, key, nread, res, stdout, script, pairs_at_q>>

\* app.print_json(): the store's JSON text goes to standard output
PrintJson ==
    /\ pc = "report"
    /\ res = "ok_true"
    /\ stdout' = Append(stdout, <<"json", Serialize(pairs)>>)
    /\ main_result' = "ok"
    /\ pc' = "done"
    /\ UNCHANGED <<termvars, appvars, key, nread, res, script, pairs_at_q>>

NoPrint ==
    /\ pc = "report"
    /\ res = "ok_false"
    /\ main_result' = "ok"
    /\ pc' = "done"
    /\ UNCHANGED <<termvars, appvars, key, nread, res, stdout, script, pairs_at_q>>

\* println!("{err:?}")
PrintError ==
    /\ pc = "report"
    /\ res = "err"
    /\ stdout' = Append(stdout, <<"error", <<>>>>)
    /\ main_result' = "ok"
    /\ pc' = "done"
    /\ UNCHANGED <<termvars, appvars, key, nread, res, script, pairs_at_q>>

(***************************************************************************)
(* Specifications.                                                         *)
(***************************************************************************)
Next ==
    \/ EnableRawMode \/ EnableRawModeFail
    \/ EnterAlternateScreen \/ EnterAlternateScreenFail
    \/ NewTerminal \/ NewTerminalFail
    \/ Draw \/ DrawFail
    \/ ReadAny \/ ReadFail
    \/ HandleNonKey \/ HandleRelease
    \/ MainE \/ MainQ \/ MainOther
    \/ ExitingY \/ ExitingNQ \/ ExitingOther
    \/ EditingEnter \/ EditingBackspace \/ EditingEsc \/ EditingTab
    \/ EditingChar \/ EditingOther \/ EditingNotPress
    \/ DisableRawMode \/ DisableRawModeFail
    \/ LeaveAlternateScreen \/ LeaveAlternateScreenFail
    \/ ShowCursor \/ ShowCursorFail
    \/ PrintJson \/ NoPrint \/ PrintError

Spec == Init /\ [][Next]_vars

(***************************************************************************)
(* Scripted runs: the event source delivers a fixed sequence of events,    *)
(* made of at most MaxSegments segments.                                   *)
(***************************************************************************)
Typed(s) == [i \in 1..Len(s) |-> Press(s[i])]

\* 'e', the key, Enter, the value, Enter
EditSession(k, v) ==
    <<Press("e")>> \o Typed(k) \o <<PressKey("Enter")>> \o Typed(v) \o <<PressKey("Enter")>>

NameKey == <<"n", "a", "m", "e">>

Value42 == <<"4", "2">>

ScenarioNameIs42 == EditSession(NameKey, Value42)

Segments ==
    { ScenarioNameIs42,
      EditSession(<<"a">>, <<"1">>),
      EditSession(<<"a">>, <<"2">>),
      EditSession(<<"b">>, <<"1">>),
      <<Press("e"), Press("a"), Press("x"), PressKey("Backspace"), PressKey("Tab"),
        Press("1"), PressKey("Enter")>>,
      <<Press("e"), Press("a"), Press("b"), PressKey("Esc")>>,
      <<Press("e"), CharEv("Repeat", "a"), PressKey("F1"), CharEv("Release", "a"),
        PressKey("Esc")>>,
      <<CharEv("Release", "e"), PressKey("F1"), Ev("Resize", "None", "None", "")>>,
      <<Press("q"), PressKey("F1"), Press("y")>>,
      <<Press("q"), Press("n")>> }

RECURSIVE ScriptsOf(_)
ScriptsOf(n) ==
    IF n = 0 THEN {<<>>}
    ELSE LET shorter == ScriptsOf(n - 1)
         IN  shorter \cup {s \o g : s \in shorter, g \in Segments}

Scripts == ScriptsOf(MaxSegments)

InitScripted == InitCommon /\ script \in Scripts

NextScripted ==
    \/ EnableRawMode \/ EnableRawModeFail
    \/ EnterAlternateScreen \/ EnterAlternateScreenFail
    \/ NewTerminal \/ NewTerminalFail
    \/ Draw \/ DrawFail
    \/ ReadScript \/ ReadFail
    \/ HandleNonKey \/ HandleRelease
    \/ MainE \/ MainQ \/ MainOther
    \/ ExitingY \/ ExitingNQ \/ ExitingOther
    \/ EditingEnter \/ EditingBackspace \/ EditingEsc \/ EditingTab
    \/ EditingChar \/ EditingOther \/ EditingNotPress
    \/ DisableRawMode \/ DisableRawModeFail
    \/ LeaveAlternateScreen \/ LeaveAlternateScreenFail
    \/ ShowCursor \/ ShowCursorFail
    \/ PrintJson \/ NoPrint \/ PrintError

SpecScripted == InitScripted /\ [][NextScripted]_vars

(***************************************************************************)
(* Properties.                                                             *)
(***************************************************************************)
\* a key event is being dispatched
Handling == pc = "handle" /\ key.type = "Key"

\* the iteration ended without returning from run_app
LoopContinues == pc' = "draw" /\ res' = res

\* C1: the editing focus is set only while the screen is Editing: on the Main
\* and Exiting screens currently_editing is None, so every step that leaves the
\* Editing screen (Esc, or Enter with the focus on Value) has cleared it.
C1_FocusOnlyWhileEditing ==
    current_screen \in {"Main", "Exiting"} => currently_editing = "None"

\* an edit was committed, and then the Main screen was left for Exiting
C1_Witness ==
    /\ current_screen = "Exiting"
    /\ pairs # <<>>
    /\ currently_editing = "None"

\* C2: the store changes only in the step that handles an Enter press on the
\* Editing screen with the focus on Value; every such step is a commit: it
\* stores the key buffer's entry with the value buffer's content and leaves
\* Screen = Main, focus None and both buffers empty.
C2_CommitOnlyFromValue ==
    [][/\ pairs' # pairs =>
            /\ Handling
            /\ key = PressKey("Enter")
            /\ current_screen = "Editing"
            /\ currently_editing = "Value"
       /\ (/\ Handling
           /\ key = PressKey("Enter")
           /\ current_screen = "Editing"
           /\ currently_editing = "Value") =>
            /\ HasKey(pairs', key_input)
            /\ Lookup(pairs', key_input) = value_input
            /\ current_screen' = "Main"
            /\ currently_editing' = "None"
            /\ key_input' = <<>>
            /\ value_input' = <<>>
            /\ LoopContinues]_vars

\* a commit of a non-empty key and value has just been handled
C2_Witness ==
    /\ pc = "draw"
    /\ key = PressKey("Enter")
    /\ current_screen = "Main"
    /\ \E i \in 1..Len(pairs) : pairs[i][1] # <<>> /\ pairs[i][2] # <<>>
    /\ key_input = <<>>
    /\ value_input = <<>>

\* C3: a key event whose kind is not Press (Release or Repeat) changes neither
\* the screen, the focus, the buffers nor the store, and never ends the loop.
C3_OnlyPressActs ==
    [][(Handling /\ key.kind # "Press") => (UNCHANGED appvars /\ LoopContinues)]_vars

\* C4: a Release key event, in any state and for any key code, changes neither
\* the screen, the focus, the buffers nor the store, and the loop continues.
C4_ReleaseChangesNothing ==
    [][(Handling /\ key.kind = "Release") => (UNCHANGED appvars /\ LoopContinues)]_vars

\* a Release event was handled on the Editing screen with text in a buffer
C4_Witness ==
    /\ pc = "draw"
    /\ key.type = "Key"
    /\ key.kind = "Release"
    /\ current_screen = "Editing"
    /\ key_input # <<>>

\* C5: whenever main ends, after a failure at any setup step, teardown step or
\* inside the event loop, the terminal has been restored: raw mode is disabled
\* and the alternate screen is left.
C5_TeardownAlways ==
    pc = "done" => (raw_mode = FALSE /\ alt_screen = FALSE)

\* the teardown has run completely
TornDown == raw_mode = FALSE /\ alt_screen = FALSE /\ cursor_hidden = FALSE

\* C6: on Main a 'q' press moves to Exiting and the loop goes on; on Exiting a
\* 'y' press ends the loop with Ok(true); the store's JSON text is written only
\* after the teardown, at most once, and it is the text of the store as it was
\* when 'q' was pressed; when main then returns Ok it was written exactly once.
C6_QuitYesPrintsStore ==
    /\ [][/\ (Handling /\ current_screen = "Main" /\ key = Press("q")) =>
                (current_screen' = "Exiting" /\ pairs' = pairs /\ LoopContinues)
          /\ (Handling /\ current_screen = "Exiting" /\ key = Press("y")) =>
                (res' = "ok_true" /\ pc' = "disable_raw" /\ pairs' = pairs)]_vars
    /\ [](/\ \A i \in 1..Len(stdout) :
                stdout[i][1] = "json" =>
                    /\ Len(stdout) = 1
                    /\ stdout[i][2] = Serialize(pairs_at_q)
                    /\ pairs = pairs_at_q
                    /\ res = "ok_true"
                    /\ TornDown
          /\ (pc = "done" /\ res = "ok_true" /\ main_result = "ok") =>
                stdout = << <<"json", Serialize(pairs_at_q)>> >>)

\* 'q' then 'y' with a pair in the store: main has returned Ok, the text is out
C6_Witness ==
    /\ pc = "done"
    /\ main_result = "ok"
    /\ res = "ok_true"
    /\ key = Press("y")
    /\ Len(pairs) = 1
    /\ Len(stdout) = 1
    /\ TornDown

\* C7: on Exiting an 'n' or 'q' press ends the loop with Ok(false), leaving the
\* store as it was when Exiting was entered; after Ok(false) nothing is ever
\* written to standard output.
C7_QuitNoPrintsNothing ==
    /\ [][(/\ Handling
           /\ current_screen = "Exiting"
           /\ (key = Press("n") \/ key = Press("q"))) =>
                (res' = "ok_false" /\ pc' = "disable_raw" /\ pairs' = pairs)]_vars
    /\ [](res = "ok_false" => (stdout = <<>> /\ pairs = pairs_at_q))

\* 'q' then 'n' with a pair in the store: main has returned Ok, nothing is out
C7_Witness ==
    /\ pc = "done"
    /\ main_result = "ok"
    /\ res = "ok_false"
    /\ key = Press("n")
    /\ pairs # <<>>
    /\ stdout = <<>>

\* s without its last character
IsInitOf(t, s) ==
    /\ Len(t) = Len(s) - 1
    /\ \A i \in 1..Len(t) : t[i] = s[i]

\* C8: on Editing with the focus on Key a character press appends that
\* character to the key buffer (so a sequence of presses leaves the buffer's
\* former content followed by the characters in order); a Backspace press
\* removes exactly the last character of the focused buffer and leaves the
\* other one alone; on an empty focused buffer it changes nothing.
C8_AppendAndBackspace ==
    [][/\ (/\ Handling
           /\ current_screen = "Editing"
           /\ currently_editing = "Key"
           /\ key.kind = "Press"
           /\ key.code = "Char") =>
                /\ key_input' = key_input \o <<key.ch>>
                /\ UNCHANGED <<current_screen, currently_editing, value_input, pairs>>
       /\ (/\ Handling
           /\ current_screen = "Editing"
           /\ key = PressKey("Backspace")) =>
                /\ currently_editing = "Key" =>
                        /\ IF key_input = <<>>
                           THEN key_input' = <<>>
                           ELSE IsInitOf(key_input', key_input)
                        /\ value_input' = value_input
                /\ currently_editing = "Value" =>
                        /\ IF value_input = <<>>
                           THEN value_input' = <<>>
                           ELSE IsInitOf(value_input', value_input)
                        /\ key_input' = key_input
                /\ UNCHANGED <<current_screen, currently_editing, pairs>>]_vars

\* 'y', 'q', 'e' were typed into the key buffer and a Backspace removed the 'e'
C8_Witness ==
    /\ pc = "draw"
    /\ key = PressKey("Backspace")
    /\ current_screen = "Editing"
    /\ currently_editing = "Key"
    /\ key_input = <<"y", "q">>
    /\ nread = 5

\* the entries of key k in store p
EntriesOf(p, k) == {i \in 1..Len(p) : p[i][1] = k}

\* C9: the store's keys are unique and the last write wins: a commit of key k
\* with value v leaves exactly one entry for k, mapped to v, and every other
\* entry as it was; when k was already stored the number of entries does not
\* grow.
C9_LastWriteWins ==
    /\ [][(/\ Handling
           /\ key = PressKey("Enter")
           /\ current_screen = "Editing"
           /\ currently_editing = "Value") =>
                /\ Cardinality(EntriesOf(pairs', key_input)) = 1
                /\ Lookup(pairs', key_input) = value_input
                /\ Keys(pairs') = Keys(pairs) \cup {key_input}
                /\ \A k \in Keys(pairs) \ {key_input} :
                        /\ Cardinality(EntriesOf(pairs', k)) = 1
                        /\ Lookup(pairs', k) = Lookup(pairs, k)
                /\ HasKey(pairs, key_input) => Len(pairs') = Len(pairs)]_vars
    /\ [](\A k \in Keys(pairs) : Cardinality(EntriesOf(pairs, k)) = 1)

\* "a" was committed with "1" and then with "2": one entry, "a" -> "2"
C9_Witness ==
    /\ script = EditSession(<<"a">>, <<"1">>) \o EditSession(<<"a">>, <<"2">>)
    /\ nread = Len(script)
    /\ pc = "draw"
    /\ pairs = << <<(<<"a">>), (<<"2">>)>> >>

\* the press sequence 'e', 'n','a','m','e', Enter, '4','2', Enter
NameIs42Presses ==
    <<Press("e"), Press("n"), Press("a"), Press("m"), Press("e"), PressKey("Enter"),
      Press("4"), Press("2"), PressKey("Enter")>>

\* the event source delivers that sequence first
RunsNameIs42 ==
    /\ Len(script) >= Len(NameIs42Presses)
    /\ SubSeq(script, 1, Len(NameIs42Presses)) = NameIs42Presses

\* the first n events have been handled
Handled(n) == nread = n /\ pc # "handle"

\* C10: from the initial state the press sequence 'e', 'n','a','m','e', Enter,
\* '4','2', Enter passes through (Editing, Key) with key buffer "name", then
\* (Editing, Value) with value buffer "42", and ends in (Main, None) with the
\* store {"name": "42"} and both buffers empty.
C10_NameIs42Scenario ==
    RunsNameIs42 =>
        /\ Handled(0) => (appvars = <<"Main", "None", <<>>, <<>>, <<>>>>)
        /\ Handled(1) => (appvars = <<"Editing", "Key", <<>>, <<>>, <<>>>>)
        /\ Handled(5) =>
                (appvars = <<"Editing", "Key", <<"n", "a", "m", "e">>, <<>>, <<>>>>)
        /\ Handled(6) =>
                (appvars = <<"Editing", "Value", <<"n", "a", "m", "e">>, <<>>, <<>>>>)
        /\ Handled(8) =>
                (appvars = <<"Editing", "Value", <<"n", "a", "m", "e">>, <<"4", "2">>, <<>>>>)
        /\ Handled(9) =>
                (appvars = <<"Main", "None", <<>>, <<>>,
                             << <<(<<"n", "a", "m", "e">>), (<<"4", "2">>)>> >> >>)

\* the whole sequence has been handled
C10_Witness ==
    /\ script = NameIs42Presses
    /\ nread = Len(script)
    /\ pc = "draw"
    /\ current_screen = "Main"
    /\ Len(pairs) = 1

\* C11: an Esc press on the Editing screen, with either focus, sets Screen =
\* Main and the focus to None and leaves the key buffer, the value buffer and
\* the store exactly as they were.
C11_EscKeepsBuffers ==
    [][(Handling /\ current_screen = "Editing" /\ key = PressKey("Esc")) =>
            /\ current_screen' = "Main"
            /\ currently_editing' = "None"
            /\ UNCHANGED <<key_input, value_input, pairs>>
            /\ LoopContinues]_vars

\* Esc was pressed with two characters in the key buffer: they are still there
C11_Witness ==
    /\ pc = "draw"
    /\ key = PressKey("Esc")
    /\ current_screen = "Main"
    /\ currently_editing = "None"
    /\ Len(key_input) = 2

\* the event being dispatched has no arm of its own on the current screen
HasNoArm ==
    \/ key.type # "Key"
    \/ /\ current_screen = "Main"
       /\ ~IsChar(key, "e")
       /\ ~IsChar(key, "q")
    \/ /\ current_screen = "Exiting"
       /\ ~IsChar(key, "y")
       /\ ~IsChar(key, "n")
       /\ ~IsChar(key, "q")
    \/ /\ current_screen = "Editing"
       /\ key.code \notin {"Enter", "Backspace", "Esc", "Tab", "Char"}

\* C12: the dispatch is total with a stay-put default: on Main a key other
\* than 'e'/'q', on Exiting a key other than 'y'/'n'/'q', on Editing a key other
\* than Enter, Backspace, Esc, Tab or a character, and any event that is not a
\* key event, leave the screen, the focus, both buffers and the store unchanged,
\* and the loop continues.
C12_StayPutDefault ==
    [][(pc = "handle" /\ HasNoArm) => (UNCHANGED appvars /\ LoopContinues)]_vars

\* a key without an arm was pressed on Editing with text in the key buffer
C12_Witness ==
    /\ pc = "draw"
    /\ key = PressKey("F1")
    /\ current_screen = "Editing"
    /\ currently_editing = "Key"
    /\ key_input # <<>>

\* the step about to be taken is a commit: Enter pressed on Editing, focus Value
AtCommit ==
    /\ Handling
    /\ key = PressKey("Enter")
    /\ current_screen = "Editing"
    /\ currently_editing = "Value"

\* C13: the store never shrinks and changes only at a commit: every key stored
\* before a step is stored after it, the number of entries does not drop, and
\* a step that is not a commit leaves the store identical.
C13_StoreOnlyGrows ==
    [][/\ Keys(pairs) \subseteq Keys(pairs')
       /\ Len(pairs') >= Len(pairs)
       /\ ~AtCommit => pairs' = pairs]_vars

\* "a" then "b" were committed: both entries are stored
C13_Witness ==
    /\ script = EditSession(<<"a">>, <<"1">>) \o EditSession(<<"b">>, <<"1">>)
    /\ nread = Len(script)
    /\ pc = "draw"
    /\ Keys(pairs) = {<<"a">>, <<"b">>}
    /\ Len(pairs) = 2

\* run_app is running
InLoop == pc \in {"draw", "read", "handle"}

\* this step returns from run_app
LoopReturns == InLoop /\ pc' \notin {"draw", "read", "handle"}

\* the key being dispatched is 'y', 'n' or 'q' on the Exiting screen
ExitKey ==
    /\ Handling
    /\ current_screen = "Exiting"
    /\ (IsChar(key, "y") \/ IsChar(key, "n") \/ IsChar(key, "q"))

C15_StdoutHoldsOnlyJson ==
    /\ stderr \subseteq {"frame", "control"}
    /\ \A i \in 1..Len(stdout) :
            /\ stdout[i][1] = "json"
            /\ stdout[i][2] = Serialize(pairs)
    /\ (pc = "done" /\ res = "ok_true" /\ main_result = "ok") => Len(stdout) = 1

\* C16: the key is not checked for emptiness: a commit with an empty key
\* buffer stores an entry whose key is the empty string, mapped to the value
\* buffer's content, and returns to Main like any other commit.
C16_EmptyKeyCommits ==
    [][(AtCommit /\ key_input = <<>>) =>
            /\ Cardinality(EntriesOf(pairs', <<>>)) = 1
            /\ Lookup(pairs', <<>>) = value_input
            /\ current_screen' = "Main"
            /\ currently_editing' = "None"
            /\ key_input' = <<>>
            /\ value_input' = <<>>
            /\ LoopContinues]_vars

\* three events from the start ('e', Enter, Enter): the empty key is stored
C16_Witness ==
    /\ pc = "draw"
    /\ nread = 3
    /\ key = PressKey("Enter")
    /\ current_screen = "Main"
    /\ pairs = << <<(<<>>), (<<>>)>> >>

\* C17: a Tab press on the Editing screen moves the focus from Key to Value or
\* from Value to Key and changes nothing else, so a second Tab press brings
\* the focus, and with it the whole state, back.
C17_TabTogglesFocus ==
    [][(Handling /\ current_screen = "Editing" /\ key = PressKey("Tab")) =>
            /\ currently_editing = "Key" => currently_editing' = "Value"
            /\ currently_editing = "Value" => currently_editing' = "Key"
            /\ UNCHANGED <<current_screen, key_input, value_input, pairs>>
            /\ LoopContinues]_vars

\* 'e', a character, Tab, Tab: the focus is back on Key, the buffer is intact
C17_Witness ==
    /\ pc = "draw"
    /\ nread = 4
    /\ key = PressKey("Tab")
    /\ current_screen = "Editing"
    /\ currently_editing = "Key"
    /\ Len(key_input) = 1
    /\ value_input = <<>>

\* 'e', 'a', 'b', Esc, then 'e', 'a', Enter, '1', Enter
CancelThenEdit ==
    <<Press("e"), Press("a"), Press("b"), PressKey("Esc"),
      Press("e"), Press("a"), PressKey("Enter"), Press("1"), PressKey("Enter")>>

\* C18: 'e' on Main changes only the screen (to Editing) and the focus (to
\* Key), not the buffers; so after a cancelled edit the buffers carry over
\* into the next edit, new characters are appended to what was kept, and the
\* commit stores the kept characters as part of the key.
C18_EditKeepsBuffers ==
    /\ [][(Handling /\ current_screen = "Main" /\ key = Press("e")) =>
                /\ current_screen' = "Editing"
                /\ currently_editing' = "Key"
                /\ UNCHANGED <<key_input, value_input, pairs>>
                /\ LoopContinues]_vars
    /\ [](script = CancelThenEdit =>
                /\ Handled(4) => appvars = <<"Main", "None", <<"a", "b">>, <<>>, <<>>>>
                /\ Handled(5) => appvars = <<"Editing", "Key", <<"a", "b">>, <<>>, <<>>>>
                /\ Handled(6) => appvars = <<"Editing", "Key", <<"a", "b", "a">>, <<>>, <<>>>>
                /\ Handled(9) =>
                        appvars = <<"Main", "None", <<>>, <<>>,
                                    << <<(<<"a", "b", "a">>), (<<"1">>)>> >> >>)

\* the cancelled "ab" became part of the committed key "aba"
C18_Witness ==
    /\ script = CancelThenEdit
    /\ nread = Len(script)
    /\ pc = "draw"
    /\ Keys(pairs) = {<<"a", "b", "a">>}

\* C19: on the Editing screen the focus is Key or Value, never None, so a
\* character press there is never without effect: it appends the character to
\* exactly the focused buffer, which grows by one, and leaves the other
\* buffer, the focus, the screen and the store unchanged.
C19_CharGoesToFocusedBuffer ==
    /\ [](current_screen = "Editing" => currently_editing \in {"Key", "Value"})
    /\ [][(/\ Handling
           /\ current_screen = "Editing"
           /\ key.kind = "Press"
           /\ key.code = "Char") =>
                /\ currently_editing = "Key" =>
                        /\ key_input' = key_input \o <<key.ch>>
                        /\ Len(key_input') = Len(key_input) + 1
                        /\ value_input' = value_input
                /\ currently_editing = "Value" =>
                        /\ value_input' = value_input \o <<key.ch>>
                        /\ Len(value_input') = Len(value_input) + 1
                        /\ key_input' = key_input
                /\ <<key_input', value_input'>> # <<key_input, value_input>>
                /\ UNCHANGED <<current_screen, currently_editing, pairs>>
                /\ LoopContinues]_vars

\* a character was typed with the focus on Value, after one typed into the key
C19_Witness ==
    /\ pc = "draw"
    /\ key = Press("y")
    /\ current_screen = "Editing"
    /\ currently_editing = "Value"
    /\ key_input = <<"q">>
    /\ value_input = <<"y">>

(***************************************************************************)
(* Escape runs: any beginning of a scripted run, followed by Esc, 'q', 'n'. *)
(***************************************************************************)
EscapePresses == <<PressKey("Esc"), Press("q"), Press("n")>>

Prefixes(s) == {SubSeq(s, 1, n) : n \in 0..Len(s)}

EscapeScripts == {p \o EscapePresses : p \in UNION {Prefixes(s) : s \in Scripts}}

InitEscape == InitCommon /\ script \in EscapeScripts

SpecEscape == InitEscape /\ [][NextScripted]_vars

\* the first of the three escape presses has been read: the loop was running
EscapeBegun == nread > Len(script) - Len(EscapePresses)

\* C20: the user is never trapped and Exiting is absorbing: from every state
\* in which the loop runs, the presses Esc, 'q', 'n' end the loop with
\* Ok(false) by the last of them at the latest (the loop can end otherwise
\* only by an I/O failure); and on the Exiting screen no step goes back to
\* Main or Editing or changes the focus, the buffers or the store.
C20_EscQNAlwaysExits ==
    /\ []((nread = Len(script) /\ pc # "handle") => res = "ok_false")
    /\ []((EscapeBegun /\ res # "none") => res \in {"ok_false", "err"})
    /\ [][current_screen = "Exiting" =>
                /\ current_screen' = "Exiting"
                /\ UNCHANGED <<currently_editing, key_input, value_input, pairs>>]_vars

\* from the Editing screen with "ab" typed: Esc, 'q', 'n' ended the run
C20_Witness ==
    /\ script = <<Press("e"), Press("a"), Press("b")>> \o EscapePresses
    /\ nread = Len(script)
    /\ pc = "done"
    /\ res = "ok_false"
    /\ main_result = "ok"
    /\ key_input = <<"a", "b">>
    /\ stdout = <<>>

====
